---- MODULE Spec2Model ----
(***************************************************************************)
(* WordPress to n8n Exporter (src/app.py).                                 *)
(*                                                                         *)
(* The model follows the Streamlit script: the two button handlers (Test   *)
(* Connection, Export to n8n), the paginated collectors fetch_all_posts    *)
(* and fetch_taxonomy_terms one HTTP request per step, and the node,       *)
(* workflow and file builders.  The remote WordPress site is the           *)
(* environment: it holds one collection of items per REST base and answers *)
(* each request with a page, with an error, or never.                      *)
(***************************************************************************)
EXTENDS Integers, Sequences, FiniteSets, TLC

(***************************************************************************)
(* Program constants.                                                      *)
(***************************************************************************)
per_page == 100            \* per_page = 100 (fetch_all_posts, fetch_taxonomy_terms)
InitialRetriesOffByOne == 3 + 1
InitialRetries == 3        \* retries = 3
PostsTimeout == 30         \* timeout=30 of the page requests of fetch_all_posts
TestTimeout == 10          \* timeout=10 of test_connection
NoTimeout == 0             \* a requests.get call without timeout argument
FirstPage == 1             \* page = 1

(***************************************************************************)
(* Bounds of the model.                                                    *)
(***************************************************************************)
MaxFullPages == 2          \* remote collections hold up to MaxFullPages full pages and a rest
MaxRequests == 6           \* page requests followed within one collector call
MaxCustomItems == 6        \* items a custom endpoint answers with
MaxNameLen == 3            \* characters of a name handed to sanitize_filename

Min(a, b) == IF a < b THEN a ELSE b
Max(a, b) == IF a > b THEN a ELSE b

(***************************************************************************)
(* The remote site.  A collection of n items is the sequence 1..n; the     *)
(* server cuts it in pages of per_page items, pages counted from 1, and    *)
(* answers a page past the end with an empty list.                         *)
(***************************************************************************)
Offsets == {0, 1, 50, 99}
Sizes == {k * per_page + d : k \in 0..MaxFullPages, d \in Offsets}
Caps == Sizes              \* max_items values; 0 stands for None (all items)

Items(n) == [i \in 1..n |-> i]

PageOf(n, p, size) ==
    [i \in 1..Max(0, Min(size, n - (p - 1) * size)) |-> (p - 1) * size + i]

(***************************************************************************)
(* Strings the program takes apart are sequences of characters.            *)
(***************************************************************************)
LowerCase == <<"a", "b", "c", "d", "e", "f", "g", "h", "i", "j", "k", "l", "m",
               "n", "o", "p", "q", "r", "s", "t", "u", "v", "w", "x", "y", "z">>
UpperCase == <<"A", "B", "C", "D", "E", "F", "G", "H", "I", "J", "K", "L", "M",
               "N", "O", "P", "Q", "R", "S", "T", "U", "V", "W", "X", "Y", "Z">>
Digits == {"0", "1", "2", "3", "4", "5", "6", "7", "8", "9"}

Range(f) == {f[x] : x \in DOMAIN f}

\* \w of the re module, on the characters of the model
WordChars == Range(LowerCase) \cup Range(UpperCase) \cup Digits \cup {"_"}

IsWordChar(c) == c \in WordChars

sanitize_filenamePeriodDropped(name) ==
    [k \in 1..Len(name) |->
        IF IsWordChar(name[k]) \/ name[k] = "-" THEN name[k] ELSE "_"]

\* re.sub(r'[^\w\-\.]', '_', name)
sanitize_filename(name) ==
    [k \in 1..Len(name) |->
        IF IsWordChar(name[k]) \/ name[k] \in {"-", "."} THEN name[k] ELSE "_"]

\* str.replace('/', '_')
ReplaceSlash(str) == [k \in 1..Len(str) |-> IF str[k] = "/" THEN "_" ELSE str[k]]

\* str.rstrip('/')
RECURSIVE RStripSlash(_)
RStripSlash(str) ==
    IF Len(str) > 0 /\ str[Len(str)] = "/"
    THEN RStripSlash(SubSeq(str, 1, Len(str) - 1))
    ELSE str

\* str.split('/')[-1]
RECURSIVE LastPart(_)
LastPart(str) ==
    IF Len(str) = 0 \/ str[Len(str)] = "/" THEN <<>>
    ELSE Append(LastPart(SubSeq(str, 1, Len(str) - 1)), str[Len(str)])

ToUpper(c) ==
    IF \E k \in 1..26 : LowerCase[k] = c
    THEN UpperCase[CHOOSE k \in 1..26 : LowerCase[k] = c] ELSE c

ToLower(c) ==
    IF \E k \in 1..26 : UpperCase[k] = c
    THEN LowerCase[CHOOSE k \in 1..26 : UpperCase[k] = c] ELSE c

\* str.capitalize()
Capitalize(str) ==
    [k \in 1..Len(str) |-> IF k = 1 THEN ToUpper(str[k]) ELSE ToLower(str[k])]

NodeSuffix == <<"_", "n", "o", "d", "e", ".", "j", "s", "o", "n">>
TaxonomyNodeSuffix == <<"_", "t", "a", "x", "o", "n", "o", "m", "y">> \o NodeSuffix
WorkflowSuffix == <<"_", "w", "o", "r", "k", "f", "l", "o", "w", ".", "j", "s", "o", "n">>
CustomPrefix == <<"c", "u", "s", "t", "o", "m", "_">>
ReadmeName == <<"R", "E", "A", "D", "M", "E", ".", "m", "d">>
ApiPath == <<"/", "w", "p", "-", "j", "s", "o", "n", "/", "w", "p", "/", "v", "2", "/">>

(***************************************************************************)
(* The site of the end-to-end scenario: post types post, page and product, *)
(* taxonomy category, 150 products.                                        *)
(***************************************************************************)
post == <<"p", "o", "s", "t">>
page_type == <<"p", "a", "g", "e">>
product == <<"p", "r", "o", "d", "u", "c", "t">>
category == <<"c", "a", "t", "e", "g", "o", "r", "y">>
posts_base == <<"p", "o", "s", "t", "s">>
pages_base == <<"p", "a", "g", "e", "s">>
categories_base == <<"c", "a", "t", "e", "g", "o", "r", "i", "e", "s">>

\* Post types a WordPress site registers besides its content types
attachment == <<"a", "t", "t", "a", "c", "h", "m", "e", "n", "t">>
nav_menu_item == <<"n", "a", "v", "_", "m", "e", "n", "u", "_", "i", "t", "e", "m">>
wp_block == <<"w", "p", "_", "b", "l", "o", "c", "k">>
wp_template == <<"w", "p", "_", "t", "e", "m", "p", "l", "a", "t", "e">>
wp_template_part == wp_template \o <<"_", "p", "a", "r", "t">>
wp_navigation == <<"w", "p", "_", "n", "a", "v", "i", "g", "a", "t", "i", "o", "n">>

\* GET /wp-json/wp/v2/types and /wp-json/wp/v2/taxonomies: slug -> info, in
\* the order of the keys
SitePostTypes == <<post, page_type, product>>
SiteTaxonomies == <<category>>

SiteInfo(slug) ==
    CASE slug = post -> [name |-> "Posts", rest_base |-> posts_base]
      [] slug = page_type -> [name |-> "Pages", rest_base |-> pages_base]
      [] slug = product -> [name |-> "Products", rest_base |-> product]
      [] slug = category -> [name |-> "Categories", rest_base |-> categories_base]

\* REST base -> number of items of the collection
SiteCollections ==
    (posts_base :> 3) @@ (pages_base :> 0) @@ (product :> 150) @@
    (categories_base :> 101)

Outcomes == {"ok", "fail", "hang"}

\* What requests.get raises or returns: a server that never answers makes a
\* call with a timeout raise (a failure) and blocks a call without one.
Answer(outcome, timeout) ==
    IF outcome = "hang" /\ timeout # NoTimeout THEN "fail" ELSE outcome

VARIABLES
    last_tested,     \* history: the fields of the most recent Test Connection that succeeded
    site_types,      \* the site: slugs of its registered post types, in the order of /types
    remote,          \* the site: REST base -> number of items of its collection
    pc,              \* position of the script
    rest_base,       \* collector argument: the REST base fetched
    arg_max_items,   \* collector argument max_items (0 = None)
    posts,           \* fetch_all_posts: accumulated items
    terms,           \* fetch_taxonomy_terms: accumulated items
    page,            \* collector local: page counter
    params,          \* collector local: query parameters of the requests
    retries,         \* fetch_all_posts: retries left in the retry loop
    status_text,     \* fetch_all_posts: the st.empty() status line
    warnings,        \* st.warning messages on the page
    result,          \* value returned by the last collector call
    log,             \* requests issued by the running handler or collector call
    wp_connection,   \* st.session_state['wp_connection']
    post_types,      \* st.session_state['post_types'], its slugs in key order
    taxonomies,      \* st.session_state['taxonomies'], its slugs in key order
    form,            \* Connection tab fields read by the Test Connection handler
    found_types,     \* Test Connection handler local post_types
    ui,              \* widget values read by the Export handler
    idx,             \* Export handler: index in the list being looped over
    exported_nodes,  \* Export handler: exported_nodes
    exported_files,  \* Export handler: exported_files
    written,         \* files written by the run, in order
    all_answered     \* every request of the running handler was answered ok so far

session == <<wp_connection, post_types, taxonomies>>

run == <<ui, idx, exported_nodes, exported_files, written>>

vars == <<last_tested, site_types, remote, pc, rest_base, arg_max_items, posts, terms, page, params,
          retries, status_text, warnings, result, log, wp_connection,
          post_types, taxonomies, form, found_types, ui, idx, exported_nodes,
          exported_files, written, all_answered>>

Request(fn, p, timeout, answer) ==
    [fn |-> fn, page |-> p, timeout |-> timeout, answer |-> answer]

(***************************************************************************)
(* Node, workflow and file builders.                                       *)
(***************************************************************************)
\* build_n8n_node(wp_url, username, app_password, endpoint, node_name,
\*                method, pagination)
build_n8n_node(wp_url, username, app_password, endpoint, node_name, method, pagination) ==
    [parameters |->
        [authentication |-> "basicAuth",
         url |-> RStripSlash(wp_url) \o ApiPath \o endpoint,
         method |-> method,
         paginated |-> (pagination /\ method = "GET"),
         basicAuth |-> [user |-> username, password |-> app_password]],
     name |-> node_name,
     type |-> "n8n-nodes-base.httpRequest",
     position |-> <<0, 0>>]

\* sample = posts[:min(len(posts), sample_data_limit)]
Sample(items, limit) == SubSeq(items, 1, Min(Len(items), limit))

\* if include_sample_data and posts: node["data"] = sample
WithSample(node, items, settings) ==
    IF settings.include_sample_data /\ items # <<>>
    THEN node @@ [data |-> Sample(items, settings.sample_data_limit)]
    ELSE node

WithoutCredentialsForgotten(node, settings) == node

\* if not include_credentials:
\*     node["parameters"]["basicAuth"] = {"user": "", "password": ""}
WithoutCredentials(node, settings) ==
    IF ~settings.include_credentials
    THEN [node EXCEPT !.parameters.basicAuth = [user |-> "", password |-> ""]]
    ELSE node

PlacedNodeTransposed(node, k) ==
    [f \in DOMAIN node \cup {"id"} |->
        CASE f = "position" -> <<240 * (k \div 3), 240 * (k % 3)>>
          [] f = "id" -> <<"node-", k + 1>>
          [] OTHER -> node[f]]

\* node_copy of build_n8n_workflow for the node at index k (from 0)
PlacedNode(node, k) ==
    [f \in DOMAIN node \cup {"id"} |->
        CASE f = "position" -> <<240 * (k % 3), 240 * (k \div 3)>>
          [] f = "id" -> <<"node-", k + 1>>
          [] OTHER -> node[f]]

\* build_n8n_workflow(nodes, name)
build_n8n_workflow(nodes, name) ==
    [name |-> name,
     nodes |-> [k \in 1..Len(nodes) |-> PlacedNode(nodes[k], k - 1)],
     active |-> FALSE]

\* save_n8n_node(node, filename, output_dir): one write of the file
save_n8n_node(files, content, filename) ==
    Append(files, [path |-> filename, content |-> content])

WantsNodeFiles(settings) == settings.export_format \in {"Individual Nodes", "Both"}
WantsWorkflow(settings) == settings.export_format \in {"Complete Workflow", "Both"}

(***************************************************************************)
(* Pieces of the collectors.                                               *)
(***************************************************************************)
\* if len(data) < per_page or (max_items and len(posts) >= max_items): break
ReachedEnd(data, acc, max_items) ==
    \/ Len(data) < per_page
    \/ (max_items # 0 /\ Len(acc) >= max_items)

LimitForgotten(acc, max_items) == acc

\* if max_items and len(posts) > max_items: posts = posts[:max_items]
Limit(acc, max_items) ==
    IF max_items # 0 /\ Len(acc) > max_items THEN SubSeq(acc, 1, max_items) ELSE acc

\* params = {'per_page': per_page, 'page': page}, built once before the loop
PostsParams(p) == [per_page |-> per_page, page |-> p]

\* params = {'per_page': per_page, 'page': page}, rebuilt in every iteration
TermsParams(p) == [per_page |-> per_page, page |-> p]

\* The state at entry of fetch_all_posts(wp_url, post_type, auth, ..., max_items)
EnterPosts(rb, m) ==
    /\ rest_base' = rb
    /\ arg_max_items' = m
    /\ posts' = <<>>
    /\ terms' = <<>>
    /\ page' = FirstPage
    /\ params' = PostsParams(FirstPage)
    /\ retries' = 0
    /\ status_text' = "Fetching"
    /\ result' = <<>>
    /\ log' = <<>>
    /\ pc' = "posts_try"

\* The state at entry of fetch_taxonomy_terms(wp_url, taxonomy, auth, max_items)
EnterTerms(rb, m) ==
    /\ rest_base' = rb
    /\ arg_max_items' = m
    /\ posts' = <<>>
    /\ terms' = <<>>
    /\ page' = FirstPage
    /\ params' = TermsParams(FirstPage)
    /\ retries' = 0
    /\ status_text' = ""
    /\ result' = <<>>
    /\ log' = <<>>
    /\ pc' = "terms_try"

\* Leaving fetch_all_posts: progress_bar.empty(), status_text.empty(), the
\* cut to max_items and the return.
ReturnPosts(acc) ==
    /\ status_text' = ""
    /\ result' = Limit(acc, arg_max_items)
    /\ pc' = "posts_returned"

\* Leaving fetch_taxonomy_terms: the cut to max_items and the return.
ReturnTerms(acc) ==
    /\ result' = Limit(acc, arg_max_items)
    /\ pc' = "terms_returned"

\* An exception of a page request that leaves fetch_taxonomy_terms and the
\* handler that called it.
TermsFailedRaises ==
    /\ pc' = "crashed"
    /\ UNCHANGED <<warnings, result, terms, page>>

\* except Exception as e: st.warning(...); break
TermsFailed ==
    /\ warnings' = Append(warnings, [text |-> "Failed to fetch terms", about |-> rest_base])
    /\ ReturnTerms(terms)
    /\ UNCHANGED <<terms, page>>

(***************************************************************************)
(* fetch_all_posts, one request per step.                                  *)
(***************************************************************************)
\* The first attempt of an iteration of the while True loop.
PostsAttempt ==
    /\ pc = "posts_try"
    /\ Len(log) < MaxRequests
    /\ \E outcome \in Outcomes :
        LET answer == Answer(outcome, PostsTimeout)
            data == PageOf(remote[rest_base], params.page, params.per_page)
        IN  /\ log' = Append(log, Request("fetch_all_posts", params.page, PostsTimeout, answer))
            /\ IF answer = "ok"
               THEN /\ posts' = posts \o data
                    /\ IF ReachedEnd(data, posts', arg_max_items)
                       THEN /\ ReturnPosts(posts')
                            /\ UNCHANGED page
                       ELSE /\ page' = page + 1
                            /\ status_text' = "Fetching"
                            /\ UNCHANGED <<pc, result>>
                    /\ UNCHANGED retries
               ELSE \* except Exception: message, sleep, retries = 3
                    /\ status_text' = "Error fetching"
                    /\ retries' = InitialRetries
                    /\ pc' = "posts_retry"
                    /\ UNCHANGED <<posts, page, result>>
            /\ all_answered' = (all_answered /\ answer = "ok")
    /\ UNCHANGED <<site_types, last_tested, remote, rest_base, arg_max_items, terms, params, warnings>>
    /\ UNCHANGED <<session, form, found_types, run>>

\* One iteration of the inner loop, while retries > 0, and what follows the
\* loop when this iteration ends it.
PostsRetry ==
    /\ pc = "posts_retry"
    /\ retries > 0
    /\ Len(log) < MaxRequests
    /\ \E outcome \in Outcomes :
        LET answer == Answer(outcome, PostsTimeout)
            data == PageOf(remote[rest_base], params.page, params.per_page)
        IN  /\ log' = Append(log, Request("fetch_all_posts", params.page, PostsTimeout, answer))
            /\ IF answer = "ok"
               THEN \* posts.extend(data); break; retries > 0, so page += 1
                    /\ posts' = posts \o data
                    /\ page' = page + 1
                    /\ status_text' = "Fetching"
                    /\ pc' = "posts_try"
                    /\ UNCHANGED <<retries, result>>
               ELSE /\ retries' = retries - 1
                    /\ IF retries' = 0
                       THEN \* "Failed to fetch ... after multiple retries"; break
                            /\ ReturnPosts(posts)
                       ELSE UNCHANGED <<pc, status_text, result>>
                    /\ UNCHANGED <<posts, page>>
            /\ all_answered' = (all_answered /\ answer = "ok")
    /\ UNCHANGED <<site_types, last_tested, remote, rest_base, arg_max_items, terms, params, warnings>>
    /\ UNCHANGED <<session, form, found_types, run>>

(***************************************************************************)
(* fetch_taxonomy_terms, one request per step.                             *)
(***************************************************************************)
TermsAttempt ==
    /\ pc = "terms_try"
    /\ Len(log) < MaxRequests
    /\ \E outcome \in Outcomes :
        LET answer == Answer(outcome, NoTimeout)
            params1 == TermsParams(page)
            data == PageOf(remote[rest_base], params1.page, params1.per_page)
        IN  /\ params' = params1
            /\ log' = Append(log, Request("fetch_taxonomy_terms", params1.page, NoTimeout, answer))
            /\ CASE answer = "ok" ->
                    /\ terms' = terms \o data
                    /\ IF ReachedEnd(data, terms', arg_max_items)
                       THEN /\ ReturnTerms(terms')
                            /\ UNCHANGED page
                       ELSE /\ page' = page + 1
                            /\ UNCHANGED <<pc, result>>
                    /\ UNCHANGED warnings
                 [] answer = "fail" -> TermsFailed
                 [] answer = "hang" ->
                    \* requests.get never returns
                    /\ pc' = "blocked"
                    /\ UNCHANGED <<terms, page, result, warnings>>
            /\ all_answered' = (all_answered /\ answer = "ok")
    /\ UNCHANGED <<site_types, last_tested, remote, rest_base, arg_max_items, posts, retries, status_text>>
    /\ UNCHANGED <<session, form, found_types, run>>

(***************************************************************************)
(* Values of the widgets.                                                  *)
(***************************************************************************)
SiteUrl == <<"w", ".", "i", "o", "/">>
users_endpoint == <<"w", "p", "/", "v", "2", "/", "u", "s", "e", "r", "s">>
media_endpoint == <<"w", "p", "/", "v", "2", "/", "m", "e", "d", "i", "a">>
users_me_endpoint == users_endpoint \o <<"/", "m", "e">>
users_me_query == users_endpoint \o <<"?", "m", "e">>
ExportName == <<"M", "y", " ", "E", "x", "p", "o", "r", "t">>

Urls == {<<>>, SiteUrl}
Usernames == {"admin", "editor"}
Passwords == {"", "s3cret"}

ExportTypes == {"Post Types", "Taxonomies", "Both", "Custom Endpoints"}
ExportFormats == {"Individual Nodes", "Complete Workflow", "Both"}
ItemLimits == {0, 100}     \* number_input, 0 for all (the default is 100)
SampleLimits == {5}        \* number_input "Sample data items", 1..50 (the default is 5)
Methods == {"GET", "POST"}
EndpointLists == {<<>>, <<users_endpoint>>, <<users_endpoint, media_endpoint>>,
                  <<users_me_endpoint, users_me_query>>}

\* default_selection = [slug for slug in post_types.keys() if slug not in [...]]
ExcludedTypes == {wp_block, wp_template, wp_template_part, wp_navigation}

default_selection(types) == SelectSeq(types, LAMBDA slug : slug \notin ExcludedTypes)

\* What a multiselect over the options returns: nothing, the last option or
\* all of them.
Selections(options) ==
    IF options = <<>> THEN {<<>>}
    ELSE {<<>>, <<options[Len(options)]>>, options}

\* max_items = None if max_items == 0 else max_items
LimitChoices(options) == IF options = <<>> THEN {0} ELSE ItemLimits

CustomChoices ==
    UNION {{[list |-> l, methods |-> m] : m \in [Range(l) -> Methods]} : l \in EndpointLists}

AdvancedChoices ==
    {[export_format |-> f, workflow_name |-> ExportName, include_pagination |-> TRUE,
      include_credentials |-> c, include_sample_data |-> k # 0,
      sample_data_limit |-> k, create_docs |-> TRUE] :
        f \in ExportFormats, c \in BOOLEAN, k \in {0} \cup SampleLimits}

NoConnection == [url |-> <<>>, username |-> "", app_password |-> ""]
NoForm == [wp_url |-> <<>>, username |-> "", app_password |-> ""]
NoUi == [export_type |-> "", selected_post_types |-> <<>>, max_items |-> 0,
         selected_taxonomies |-> <<>>, max_terms |-> 0,
         custom_endpoint_list |-> <<>>, endpoint_methods |-> <<>>,
         export_format |-> "", workflow_name |-> <<>>, include_pagination |-> FALSE,
         include_credentials |-> FALSE, include_sample_data |-> FALSE,
         sample_data_limit |-> 0, create_docs |-> FALSE]

\* The script is waiting for the next click.
Resting == pc \in {"idle", "done", "crashed"}

\* The locals of a collector call are gone once the caller has its result.
Forget ==
    /\ rest_base' = <<>>
    /\ arg_max_items' = 0
    /\ posts' = <<>>
    /\ terms' = <<>>
    /\ page' = FirstPage
    /\ params' = PostsParams(FirstPage)
    /\ retries' = 0
    /\ status_text' = ""
    /\ result' = <<>>
    /\ log' = <<>>

\* A rerun of the script: the page is drawn anew and no variable of the
\* previous run is left.
Rerun ==
    /\ Forget
    /\ warnings' = <<>>
    /\ all_answered' = TRUE
    /\ ui' = NoUi
    /\ exported_nodes' = <<>>
    /\ exported_files' = <<>>
    /\ written' = <<>>
    /\ idx' = 1
    /\ UNCHANGED <<site_types, last_tested, remote>>

(***************************************************************************)
(* The Test Connection button.                                             *)
(***************************************************************************)
\* if st.button("Test Connection"): if not all([wp_url, username, app_password])
TestClick ==
    /\ Resting
    /\ Rerun
    /\ \E u \in Urls, n \in Usernames, pw \in Passwords :
        IF u = <<>> \/ n = "" \/ pw = ""
        THEN /\ pc' = "idle"
             /\ form' = NoForm
        ELSE /\ pc' = "tc_test"
             /\ form' = [wp_url |-> u, username |-> n, app_password |-> pw]
    /\ UNCHANGED <<session, found_types>>

StoreConnectionUnchecked(conn, fields, success) ==
    [url |-> fields.wp_url, username |-> fields.username,
     app_password |-> fields.app_password]

\* if success: st.session_state['wp_connection'] = {...}
StoreConnection(conn, fields, success) ==
    IF success
    THEN [url |-> fields.wp_url, username |-> fields.username,
          app_password |-> fields.app_password]
    ELSE conn

\* test_connection(wp_url, auth) and the storing of the connection
TcTest ==
    /\ pc = "tc_test"
    /\ \E outcome \in Outcomes :
        LET answer == Answer(outcome, TestTimeout)
        IN  /\ log' = Append(log, Request("test_connection", 0, TestTimeout, answer))
            /\ all_answered' = (all_answered /\ answer = "ok")
            /\ wp_connection' = StoreConnection(wp_connection, form, answer = "ok")
            /\ IF answer = "ok"
               THEN /\ last_tested' = form
                    /\ pc' = "tc_types"
                    /\ UNCHANGED form
               ELSE /\ pc' = "idle"
                    /\ form' = NoForm
                    /\ UNCHANGED last_tested
    /\ UNCHANGED <<site_types, remote, rest_base, arg_max_items, posts, terms, page, params,
                   retries, status_text, warnings, result>>
    /\ UNCHANGED <<post_types, taxonomies, found_types, run>>

\* post_types = get_custom_post_types(wp_url, auth)
TcTypes ==
    /\ pc = "tc_types"
    /\ \E outcome \in Outcomes :
        LET answer == Answer(outcome, NoTimeout)
        IN  /\ log' = Append(log, Request("get_custom_post_types", 0, NoTimeout, answer))
            /\ all_answered' = (all_answered /\ answer = "ok")
            /\ CASE answer = "ok" -> found_types' = site_types /\ pc' = "tc_taxonomies"
                 [] answer = "fail" -> found_types' = <<>> /\ pc' = "tc_taxonomies"
                 [] answer = "hang" -> pc' = "blocked" /\ UNCHANGED found_types
    /\ UNCHANGED <<site_types, last_tested, remote, rest_base, arg_max_items, posts, terms, page, params,
                   retries, status_text, warnings, result>>
    /\ UNCHANGED <<session, form, run>>

\* taxonomies = get_taxonomies(wp_url, auth) and the storing of both lists
TcTaxonomies ==
    /\ pc = "tc_taxonomies"
    /\ \E outcome \in Outcomes :
        LET answer == Answer(outcome, NoTimeout)
        IN  /\ log' = Append(log, Request("get_taxonomies", 0, NoTimeout, answer))
            /\ all_answered' = (all_answered /\ answer = "ok")
            /\ IF answer = "hang"
               THEN /\ pc' = "blocked"
                    /\ UNCHANGED <<post_types, taxonomies, form, found_types>>
               ELSE /\ post_types' = found_types
                    /\ taxonomies' = (IF answer = "ok" THEN SiteTaxonomies ELSE <<>>)
                    /\ pc' = "idle"
                    /\ form' = NoForm
                    /\ found_types' = <<>>
    /\ UNCHANGED <<site_types, last_tested, remote, rest_base, arg_max_items, posts, terms, page, params,
                   retries, status_text, warnings, result>>
    /\ UNCHANGED <<wp_connection, run>>

(***************************************************************************)
(* The Export to n8n button.                                               *)
(***************************************************************************)
\* if 'wp_connection' in st.session_state: if st.button("Export to n8n")
ExportClick ==
    /\ Resting
    /\ wp_connection # NoConnection
    /\ Rerun
    /\ pc' = "widgets"
    /\ UNCHANGED <<session, form, found_types>>

\* The Export Options and Advanced Settings tabs of that run: the values of
\* the widgets, which exist only for the export type chosen.
ReadWidgets ==
    /\ pc = "widgets"
    /\ \E t \in ExportTypes, adv \in AdvancedChoices :
        LET with_types == t \in {"Post Types", "Both"}
            with_taxonomies == t \in {"Taxonomies", "Both"}
        IN  \E sp \in (IF with_types
                       THEN Selections(post_types) \cup {default_selection(post_types)}
                       ELSE {<<>>}),
               mi \in (IF with_types THEN LimitChoices(post_types) ELSE {0}),
               st \in (IF with_taxonomies THEN Selections(taxonomies) ELSE {<<>>}),
               mt \in (IF with_taxonomies THEN LimitChoices(taxonomies) ELSE {0}),
               ce \in (IF t = "Custom Endpoints" THEN CustomChoices
                       ELSE {[list |-> <<>>, methods |-> <<>>]}) :
                ui' = [export_type |-> t, selected_post_types |-> sp, max_items |-> mi,
                       selected_taxonomies |-> st, max_terms |-> mt,
                       custom_endpoint_list |-> ce.list,
                       endpoint_methods |-> ce.methods] @@ adv
    /\ pc' = "post_types"
    /\ UNCHANGED <<site_types, last_tested, remote, rest_base, arg_max_items, posts, terms, page, params,
                   retries, status_text, warnings, result, log>>
    /\ UNCHANGED <<session, form, found_types, idx, exported_nodes, exported_files,
                   written, all_answered>>

\* Stays in the handler, at the next loop or statement.
Goto(label) ==
    /\ pc' = label
    /\ idx' = 1
    /\ UNCHANGED <<rest_base, arg_max_items, posts, terms, page, params, retries,
                   status_text, result, log>>

\* for slug in selected_post_types: ... posts = fetch_all_posts(...)
PostTypesNext ==
    /\ pc = "post_types"
    /\ IF ui.export_type \notin {"Post Types", "Both"}
       THEN Goto("taxonomies")
       ELSE IF post_types = <<>>
       THEN \* selected_post_types was never assigned: NameError
            /\ pc' = "crashed"
            /\ UNCHANGED <<idx, rest_base, arg_max_items, posts, terms, page, params,
                           retries, status_text, result, log>>
       ELSE IF idx > Len(ui.selected_post_types)
       THEN Goto("taxonomies")
       ELSE /\ EnterPosts(SiteInfo(ui.selected_post_types[idx]).rest_base, ui.max_items)
            /\ UNCHANGED idx
    /\ UNCHANGED <<site_types, last_tested, remote, warnings, session, form, found_types, ui, exported_nodes,
                   exported_files, written, all_answered>>

\* The rest of the loop body for one post type: build, sample, blank the
\* credentials, save, append.
PostTypeNode ==
    /\ pc = "posts_returned"
    /\ LET slug == ui.selected_post_types[idx]
           info == SiteInfo(slug)
           built == build_n8n_node(wp_connection.url, wp_connection.username,
                                   wp_connection.app_password, info.rest_base,
                                   <<"Fetch ", info.name>>, "GET", ui.include_pagination)
           node == WithoutCredentials(WithSample(built, result, ui), ui)
           filename == sanitize_filename(slug) \o NodeSuffix
       IN  /\ IF WantsNodeFiles(ui)
              THEN /\ written' = save_n8n_node(written, node, filename)
                   /\ exported_files' = Append(exported_files,
                          [name |-> <<slug, "">>, path |-> filename, count |-> Len(result)])
              ELSE UNCHANGED <<written, exported_files>>
           /\ exported_nodes' = Append(exported_nodes, node)
    /\ idx' = idx + 1
    /\ pc' = "post_types"
    /\ Forget
    /\ UNCHANGED <<site_types, last_tested, remote, warnings, session, form, found_types, ui, all_answered>>

\* for slug in selected_taxonomies: ... terms = fetch_taxonomy_terms(...)
TaxonomiesNext ==
    /\ pc = "taxonomies"
    /\ IF ui.export_type \notin {"Taxonomies", "Both"}
       THEN Goto("custom")
       ELSE IF taxonomies = <<>>
       THEN \* selected_taxonomies was never assigned: NameError
            /\ pc' = "crashed"
            /\ UNCHANGED <<idx, rest_base, arg_max_items, posts, terms, page, params,
                           retries, status_text, result, log>>
       ELSE IF idx > Len(ui.selected_taxonomies)
       THEN Goto("custom")
       ELSE /\ EnterTerms(SiteInfo(ui.selected_taxonomies[idx]).rest_base, ui.max_terms)
            /\ UNCHANGED idx
    /\ UNCHANGED <<site_types, last_tested, remote, warnings, session, form, found_types, ui, exported_nodes,
                   exported_files, written, all_answered>>

\* The rest of the loop body for one taxonomy.
TaxonomyNode ==
    /\ pc = "terms_returned"
    /\ LET slug == ui.selected_taxonomies[idx]
           info == SiteInfo(slug)
           built == build_n8n_node(wp_connection.url, wp_connection.username,
                                   wp_connection.app_password, info.rest_base,
                                   <<"Fetch ", info.name, " Terms">>, "GET",
                                   ui.include_pagination)
           node == WithoutCredentials(WithSample(built, result, ui), ui)
           filename == sanitize_filename(slug) \o TaxonomyNodeSuffix
       IN  /\ IF WantsNodeFiles(ui)
              THEN /\ written' = save_n8n_node(written, node, filename)
                   /\ exported_files' = Append(exported_files,
                          [name |-> <<slug, " (taxonomy)">>, path |-> filename,
                           count |-> Len(result)])
              ELSE UNCHANGED <<written, exported_files>>
           /\ exported_nodes' = Append(exported_nodes, node)
    /\ idx' = idx + 1
    /\ pc' = "taxonomies"
    /\ Forget
    /\ UNCHANGED <<site_types, last_tested, remote, warnings, session, form, found_types, ui, all_answered>>

\* for endpoint in custom_endpoint_list: build, fetch a sample, blank the
\* credentials, save, append; after the loop, on to the workflow.
CustomNext ==
    /\ pc = "custom"
    /\ IF /\ ui.export_type = "Custom Endpoints"
          /\ idx <= Len(ui.custom_endpoint_list)
       THEN LET endpoint == ui.custom_endpoint_list[idx]
                method == ui.endpoint_methods[endpoint]
                built == build_n8n_node(wp_connection.url, wp_connection.username,
                             wp_connection.app_password, endpoint,
                             <<method, " ", Capitalize(LastPart(endpoint))>>, method,
                             ui.include_pagination /\ method = "GET")
                filename == CustomPrefix \o sanitize_filename(ReplaceSlash(endpoint))
                                \o NodeSuffix
                \* the rest of the loop body, given the node with or without data
                Finish(sampled) ==
                    LET node == WithoutCredentials(sampled, ui)
                    IN  /\ IF WantsNodeFiles(ui)
                           THEN /\ written' = save_n8n_node(written, node, filename)
                                /\ exported_files' = Append(exported_files,
                                       [name |-> <<endpoint, "">>, path |-> filename,
                                        count |-> 0])
                           ELSE UNCHANGED <<written, exported_files>>
                        /\ exported_nodes' = Append(exported_nodes, node)
                        /\ idx' = idx + 1
                        /\ UNCHANGED pc
            IN  IF ui.include_sample_data /\ method = "GET"
                THEN \* resp = requests.get(endpoint_url, auth=auth,
                     \*                     params={"per_page": sample_data_limit})
                     \E outcome \in Outcomes, n \in 0..MaxCustomItems :
                        LET answer == Answer(outcome, NoTimeout)
                        IN  /\ log' = Append(log, Request("custom", 0, NoTimeout, answer))
                            /\ all_answered' = (all_answered /\ answer = "ok")
                            /\ CASE answer = "ok" -> Finish(built @@ [data |-> Items(n)])
                                 [] answer = "fail" -> Finish(built)
                                 [] answer = "hang" ->
                                    /\ pc' = "blocked"
                                    /\ UNCHANGED <<idx, exported_nodes, exported_files,
                                                   written>>
                ELSE /\ Finish(built)
                     /\ UNCHANGED <<log, all_answered>>
       ELSE /\ pc' = "workflow"
            /\ UNCHANGED <<idx, exported_nodes, exported_files, written, log,
                           all_answered>>
    /\ UNCHANGED <<site_types, last_tested, remote, rest_base, arg_max_items, posts, terms, page, params,
                   retries, status_text, warnings, result>>
    /\ UNCHANGED <<session, form, found_types, ui>>

\* The workflow file, the README and the results.
WorkflowStep ==
    /\ pc = "workflow"
    /\ LET wanted == WantsWorkflow(ui) /\ exported_nodes # <<>>
           workflow_filename == sanitize_filename(ui.workflow_name) \o WorkflowSuffix
           written1 ==
               IF wanted
               THEN save_n8n_node(written,
                        build_n8n_workflow(exported_nodes, ui.workflow_name),
                        workflow_filename)
               ELSE written
           files1 ==
               IF wanted
               THEN Append(exported_files,
                        [name |-> <<<<>>, "Complete Workflow">>,
                         path |-> workflow_filename, count |-> Len(exported_nodes)])
               ELSE exported_files
           docs == ui.create_docs /\ files1 # <<>>
       IN  /\ written' =
                IF docs
                THEN Append(written1,
                         [path |-> ReadmeName,
                          content |-> [site |-> wp_connection.url, files |-> files1]])
                ELSE written1
           /\ exported_files' =
                IF docs
                THEN Append(files1, [name |-> <<<<>>, "Documentation">>,
                                     path |-> ReadmeName, count |-> 0])
                ELSE files1
    /\ pc' = "done"
    /\ UNCHANGED <<site_types, last_tested, remote, rest_base, arg_max_items, posts, terms, page, params,
                   retries, status_text, warnings, result, log>>
    /\ UNCHANGED <<session, form, found_types, ui, idx, exported_nodes, all_answered>>

(***************************************************************************)
(* The application: the script as loaded, before any click.                *)
(***************************************************************************)
Init ==
    /\ last_tested = NoForm
    /\ site_types = SitePostTypes
    /\ remote = SiteCollections
    /\ pc = "idle"
    /\ rest_base = <<>>
    /\ arg_max_items = 0
    /\ posts = <<>>
    /\ terms = <<>>
    /\ page = FirstPage
    /\ params = PostsParams(FirstPage)
    /\ retries = 0
    /\ status_text = ""
    /\ warnings = <<>>
    /\ result = <<>>
    /\ log = <<>>
    /\ wp_connection = NoConnection
    /\ post_types = <<>>
    /\ taxonomies = <<>>
    /\ form = NoForm
    /\ found_types = <<>>
    /\ ui = NoUi
    /\ idx = 1
    /\ exported_nodes = <<>>
    /\ exported_files = <<>>
    /\ written = <<>>
    /\ all_answered = TRUE

Next ==
    \/ TestClick
    \/ TcTest
    \/ TcTypes
    \/ TcTaxonomies
    \/ ExportClick
    \/ ReadWidgets
    \/ PostTypesNext
    \/ PostsAttempt
    \/ PostsRetry
    \/ PostTypeNode
    \/ TaxonomiesNext
    \/ TermsAttempt
    \/ TaxonomyNode
    \/ CustomNext
    \/ WorkflowStep

Spec == Init /\ [][Next]_vars

(***************************************************************************)
(* One collector call against one collection: the call's arguments and     *)
(* the size of the collection are drawn from the bounded sets.             *)
(***************************************************************************)
InitCollect ==
    /\ last_tested = NoForm
    /\ site_types = SitePostTypes
    /\ \E n \in Sizes : remote = [rb \in {posts_base, categories_base} |-> n]
    /\ arg_max_items \in Caps
    /\ \/ /\ pc = "posts_try"
          /\ rest_base = posts_base
          /\ params = PostsParams(FirstPage)
          /\ status_text = "Fetching"
       \/ /\ pc = "terms_try"
          /\ rest_base = categories_base
          /\ params = TermsParams(FirstPage)
          /\ status_text = ""
    /\ posts = <<>>
    /\ terms = <<>>
    /\ page = FirstPage
    /\ retries = 0
    /\ warnings = <<>>
    /\ result = <<>>
    /\ log = <<>>
    /\ wp_connection = NoConnection
    /\ post_types = <<>>
    /\ taxonomies = <<>>
    /\ form = NoForm
    /\ found_types = <<>>
    /\ ui = NoUi
    /\ idx = 1
    /\ exported_nodes = <<>>
    /\ exported_files = <<>>
    /\ written = <<>>
    /\ all_answered = TRUE

NextCollect == PostsAttempt \/ PostsRetry \/ TermsAttempt

SpecCollect == InitCollect /\ [][NextCollect]_vars

(***************************************************************************)
(* Discovery of the post types of a site and the selection the Export      *)
(* Options tab offers for them: the registered types of the site are drawn *)
(* from the subsets of TypeUniverse.                                       *)
(***************************************************************************)
TypeUniverse == <<post, page_type, attachment, nav_menu_item, wp_block, wp_navigation>>

RawTypeSets == {SelectSeq(TypeUniverse, LAMBDA slug : slug \in S) : S \in SUBSET Range(TypeUniverse)}

\* The Export Options tab drawn with the export type "Post Types" and the
\* multiselect left at its default.
PostTypesWidget ==
    /\ pc = "idle"
    /\ wp_connection # NoConnection
    /\ post_types # <<>>
    /\ ui = NoUi
    /\ ui' = [ui EXCEPT !.export_type = "Post Types",
                        !.selected_post_types = default_selection(post_types)]
    /\ UNCHANGED <<site_types, last_tested, remote, pc, rest_base, arg_max_items, posts, terms, page,
                   params, retries, status_text, warnings, result, log>>
    /\ UNCHANGED <<session, form, found_types, idx, exported_nodes, exported_files,
                   written, all_answered>>

InitDiscover ==
    /\ last_tested = NoForm
    /\ site_types \in RawTypeSets
    /\ remote = SiteCollections
    /\ pc = "idle"
    /\ rest_base = <<>>
    /\ arg_max_items = 0
    /\ posts = <<>>
    /\ terms = <<>>
    /\ page = FirstPage
    /\ params = PostsParams(FirstPage)
    /\ retries = 0
    /\ status_text = ""
    /\ warnings = <<>>
    /\ result = <<>>
    /\ log = <<>>
    /\ wp_connection = NoConnection
    /\ post_types = <<>>
    /\ taxonomies = <<>>
    /\ form = NoForm
    /\ found_types = <<>>
    /\ ui = NoUi
    /\ idx = 1
    /\ exported_nodes = <<>>
    /\ exported_files = <<>>
    /\ written = <<>>
    /\ all_answered = TRUE

NextDiscover == TestClick \/ TcTest \/ TcTypes \/ TcTaxonomies \/ PostTypesWidget

SpecDiscover == InitDiscover /\ [][NextDiscover]_vars

(***************************************************************************)
(* sanitize_filename on its own: the name is drawn from the strings of up  *)
(* to MaxNameLen characters over NameChars, and the function is applied to *)
(* the name and then to its own result.                                    *)
(***************************************************************************)
NameChars == {"a", "Z", "7", "_", "-", ".", " ", "/"}

Names == UNION {[1..n -> NameChars] : n \in 0..MaxNameLen}

\* sanitize_filename(workflow_name)
SanitizeName ==
    /\ pc = "sanitize"
    /\ result' = sanitize_filename(ui.workflow_name)
    /\ pc' = "sanitized"
    /\ UNCHANGED <<site_types, last_tested, remote, rest_base, arg_max_items, posts, terms, page,
                   params, retries, status_text, warnings, log>>
    /\ UNCHANGED <<session, form, found_types, run, all_answered>>

\* sanitize_filename of a name that sanitize_filename returned
SanitizeAgain ==
    /\ pc = "sanitized"
    /\ result' = sanitize_filename(result)
    /\ pc' = "resanitized"
    /\ UNCHANGED <<site_types, last_tested, remote, rest_base, arg_max_items, posts, terms, page,
                   params, retries, status_text, warnings, log>>
    /\ UNCHANGED <<session, form, found_types, run, all_answered>>

InitSanitize ==
    /\ last_tested = NoForm
    /\ site_types = SitePostTypes
    /\ remote = SiteCollections
    /\ pc = "sanitize"
    /\ rest_base = <<>>
    /\ arg_max_items = 0
    /\ posts = <<>>
    /\ terms = <<>>
    /\ page = FirstPage
    /\ params = PostsParams(FirstPage)
    /\ retries = 0
    /\ status_text = ""
    /\ warnings = <<>>
    /\ result = <<>>
    /\ log = <<>>
    /\ wp_connection = NoConnection
    /\ post_types = <<>>
    /\ taxonomies = <<>>
    /\ form = NoForm
    /\ found_types = <<>>
    /\ \E name \in Names : ui = [NoUi EXCEPT !.workflow_name = name]
    /\ idx = 1
    /\ exported_nodes = <<>>
    /\ exported_files = <<>>
    /\ written = <<>>
    /\ all_answered = TRUE

NextSanitize == SanitizeName \/ SanitizeAgain

SpecSanitize == InitSanitize /\ [][NextSanitize]_vars

(***************************************************************************)
(* What a collector call has seen, read off its request log.               *)
(***************************************************************************)
CeilDiv(a, b) == (a + b - 1) \div b

Collection == remote[rest_base]

Returned == pc \in {"posts_returned", "terms_returned"}

NoFailures == \A i \in 1..Len(log) : log[i].answer = "ok"

\* The requests i .. i+n-1 of the call all failed.
FailRun(i, n) ==
    /\ i >= 1
    /\ i + n - 1 <= Len(log)
    /\ \A j \in i..(i + n - 1) : log[j].answer = "fail"

\* The pages the server delivered in answer to the first k requests, in order.
RECURSIVE Fetched(_)
Fetched(k) ==
    IF k = 0 THEN <<>>
    ELSE Fetched(k - 1) \o
         (IF log[k].answer = "ok"
          THEN PageOf(Collection, log[k].page, per_page) ELSE <<>>)

\* The call gave up on a page: its last request failed and it returned.
StoppedEarly == Returned /\ Len(log) > 0 /\ log[Len(log)].answer = "fail"

(***************************************************************************)
(* C1.  Without item cap and without request failures a collector call     *)
(* (fetch_all_posts, fetch_taxonomy_terms) on a collection of N items      *)
(* never issues more than ceil(N / per_page) page requests, and when it    *)
(* returns it has issued exactly that many and returns exactly N items.    *)
(***************************************************************************)
C1_AllItemsCeilRequests ==
    (arg_max_items = 0 /\ NoFailures) =>
        /\ Len(log) <= CeilDiv(Collection, per_page)
        /\ Returned =>
            /\ Len(result) = Collection
            /\ Len(log) = CeilDiv(Collection, per_page)

(***************************************************************************)
(* C2.  With a cap max_items = M, 0 < M < N, and no request failures, a    *)
(* collector call never issues more than ceil(M / per_page) + 1 page       *)
(* requests, has returned once it has issued that many, and returns a      *)
(* sequence of length exactly M.                                           *)
(***************************************************************************)
C2_CapExactLength ==
    (0 < arg_max_items /\ arg_max_items < Collection /\ NoFailures) =>
        /\ Len(log) <= CeilDiv(arg_max_items, per_page) + 1
        /\ Len(log) = CeilDiv(arg_max_items, per_page) + 1 => Returned
        /\ Returned => Len(result) = arg_max_items

\* fetch_all_posts returned under a cap after two pages, the last one
\* overshooting the cap.
C2_Witness ==
    /\ pc = "posts_returned"
    /\ 0 < arg_max_items /\ arg_max_items < Collection
    /\ NoFailures
    /\ Len(log) = 2
    /\ Len(posts) > arg_max_items
    /\ Len(result) = arg_max_items

(***************************************************************************)
(* C3.  When one page request of fetch_all_posts fails twice in a row and  *)
(* then succeeds, every other request succeeds and there is no item cap,   *)
(* the call returns the remote collection itself: every item once, in      *)
(* order, wherever the failing page lies.                                  *)
(***************************************************************************)
TwoFailuresThenSuccess ==
    \E i \in 1..Len(log) :
        /\ FailRun(i, 2)
        /\ i + 2 <= Len(log)
        /\ \A j \in 1..Len(log) : j \notin {i, i + 1} => log[j].answer = "ok"

C3_RetryResumes ==
    (pc = "posts_returned" /\ arg_max_items = 0 /\ TwoFailuresThenSuccess) =>
        result = Items(Collection)

(***************************************************************************)
(* C4 as stated.  When a page request of fetch_all_posts has failed 3      *)
(* times in a row the collection is abandoned: no later request of the     *)
(* call is answered with a page, and the call returns the pages received   *)
(* before the failing request (cut to max_items when a cap is set).        *)
(***************************************************************************)
C4_ThreeFailuresAbandon ==
    \A i \in 1..Len(log) :
        (log[i].fn = "fetch_all_posts" /\ FailRun(i, 3)) =>
            /\ \A j \in (i + 3)..Len(log) : log[j].answer # "ok"
            /\ Returned => result = Limit(Fetched(i - 1), arg_max_items)

(***************************************************************************)
(* C4 as amended.  When a page request of fetch_all_posts has failed 4     *)
(* times in a row (the first attempt and its 3 retries) the call has       *)
(* returned without a further request, and what it returns is the          *)
(* concatenation of the pages received before the failing request, cut to  *)
(* max_items when a cap is set.                                            *)
(***************************************************************************)
C4_FourFailuresAbandon ==
    \A i \in 1..Len(log) :
        (log[i].fn = "fetch_all_posts" /\ FailRun(i, 4)) =>
            /\ Len(log) = i + 3
            /\ pc = "posts_returned"
            /\ result = Limit(Fetched(i - 1), arg_max_items)

\* A page was received, the next request failed 4 times, and the call
\* returned the page received.
C4_Witness ==
    /\ pc = "posts_returned"
    /\ Len(log) > 4
    /\ FailRun(Len(log) - 3, 4)
    /\ result # <<>>
    /\ result = Limit(Fetched(Len(log) - 4), arg_max_items)

(***************************************************************************)
(* C5.  When a collector call returns after giving up on a page, the       *)
(* outcome is marked as partial where the caller or the user can see it    *)
(* after the return (the status line of fetch_all_posts, a warning of      *)
(* fetch_taxonomy_terms), and the items received so far are returned.      *)
(***************************************************************************)
MarkedPartial ==
    \/ status_text # ""
    \/ \E i \in 1..Len(warnings) : warnings[i].about = rest_base

C5_PartialSurfaced ==
    StoppedEarly =>
        /\ MarkedPartial
        /\ result = Limit(Fetched(Len(log)), arg_max_items)

(***************************************************************************)
(* What an export run has produced.                                        *)
(***************************************************************************)
\* The nodes a written file holds: the node of a node file, the nodes of a
\* workflow file, none for the README.
NodesOf(content) ==
    IF "nodes" \in DOMAIN content THEN Range(content.nodes)
    ELSE IF "parameters" \in DOMAIN content THEN {content}
    ELSE {}

IsWorkflow(content) == "nodes" \in DOMAIN content

FilesEnding(suffix) ==
    {k \in 1..Len(written) :
        /\ Len(written[k].path) >= Len(suffix)
        /\ SubSeq(written[k].path, Len(written[k].path) - Len(suffix) + 1,
                  Len(written[k].path)) = suffix}

\* The selected post types, then the selected taxonomies: what the run is to
\* export, in order, with the node name and the file name each one gets.
SelectedResources ==
    [k \in 1..Len(ui.selected_post_types) |->
        [name |-> <<"Fetch ", SiteInfo(ui.selected_post_types[k]).name>>,
         file |-> sanitize_filename(ui.selected_post_types[k]) \o NodeSuffix]]
    \o
    [k \in 1..Len(ui.selected_taxonomies) |->
        [name |-> <<"Fetch ", SiteInfo(ui.selected_taxonomies[k]).name, " Terms">>,
         file |-> sanitize_filename(ui.selected_taxonomies[k]) \o TaxonomyNodeSuffix]]

InPostTypes == pc \in {"post_types", "posts_try", "posts_retry", "posts_returned"}
InTaxonomies == pc \in {"taxonomies", "terms_try", "terms_returned"}
PastResources == pc \in {"custom", "workflow", "done"}

\* How many of the selected resources the run has dealt with.
Processed ==
    CASE InPostTypes -> idx - 1
      [] InTaxonomies -> Len(ui.selected_post_types) + idx - 1
      [] OTHER -> Len(SelectedResources)

(***************************************************************************)
(* C6.  End to end, on the site with post types post, page and product,    *)
(* taxonomy category and 150 products: an export of type "Both" without    *)
(* item cap, everything selected, nodes and workflow requested, sample     *)
(* size 5, every request answered, completes.  No collection takes more    *)
(* page requests than it has full pages plus one, and the finished run     *)
(* has written 3 post-type node files, 1 taxonomy node file and 1 workflow *)
(* file of 4 nodes, the product node holding a sample of exactly 5 items.  *)
(***************************************************************************)
C6_Setup ==
    /\ post_types = SitePostTypes
    /\ taxonomies = SiteTaxonomies
    /\ remote[product] = 150
    /\ ui.export_type = "Both"
    /\ ui.selected_post_types = SitePostTypes
    /\ ui.selected_taxonomies = SiteTaxonomies
    /\ ui.max_items = 0
    /\ ui.max_terms = 0
    /\ ui.export_format = "Both"
    /\ ui.include_sample_data
    /\ ui.sample_data_limit = 5
    /\ all_answered

C6_EndToEnd ==
    C6_Setup =>
        /\ (InPostTypes \/ InTaxonomies) /\ rest_base # <<>> =>
                Len(log) <= (Collection \div per_page) + 1
        /\ pc = "done" =>
            /\ Cardinality(FilesEnding(NodeSuffix) \ FilesEnding(TaxonomyNodeSuffix)) = 3
            /\ Cardinality(FilesEnding(TaxonomyNodeSuffix)) = 1
            /\ Cardinality(FilesEnding(WorkflowSuffix)) = 1
            /\ \A k \in FilesEnding(WorkflowSuffix) : Len(written[k].content.nodes) = 4
            /\ \A k \in FilesEnding(NodeSuffix) :
                    written[k].path = sanitize_filename(product) \o NodeSuffix =>
                        /\ "data" \in DOMAIN written[k].content
                        /\ Len(written[k].content.data) = 5

(***************************************************************************)
(* C7.  In an export of post types and taxonomies no answer to a page      *)
(* request, failures included, aborts the run: at every point the          *)
(* exported nodes are one node per resource dealt with so far, in          *)
(* selection order (post types, then taxonomies), each with its node file  *)
(* written when node files are requested; a finished run has dealt with    *)
(* every selected resource; and the run is aborted only where the          *)
(* selection it loops over does not exist (no post types or no taxonomies  *)
(* were found at connection time).                                         *)
(***************************************************************************)
C7_FailureDoesNotAbort ==
    /\ (ui.export_type \in {"Post Types", "Taxonomies", "Both"}
            /\ (InPostTypes \/ InTaxonomies \/ PastResources)) =>
        /\ Len(exported_nodes) = Processed
        /\ \A k \in 1..Processed :
            /\ exported_nodes[k].name = SelectedResources[k].name
            /\ WantsNodeFiles(ui) =>
                /\ written[k].path = SelectedResources[k].file
                /\ written[k].content = exported_nodes[k]
        /\ pc = "done" => Len(exported_nodes) = Len(SelectedResources)
    /\ pc = "crashed" =>
        \/ ui.export_type \in {"Post Types", "Both"} /\ post_types = <<>>
        \/ ui.export_type \in {"Taxonomies", "Both"} /\ taxonomies = <<>>

\* A finished export of all four resources in which the first one, post,
\* could not be fetched at all.
C7_Witness ==
    /\ pc = "done"
    /\ ~all_answered
    /\ ui.export_type = "Both"
    /\ WantsNodeFiles(ui)
    /\ Len(exported_nodes) = 4
    /\ remote[posts_base] > 0
    /\ exported_files[1].count = 0
    /\ exported_files[4].path = sanitize_filename(category) \o TaxonomyNodeSuffix

(***************************************************************************)
(* C8.  With 'Include credentials in export' off, every node the run has   *)
(* built and every node in a file it has written (node files and the       *)
(* workflow file) has its basicAuth block, with user and password both     *)
(* the empty string, so the application password of the connection is in   *)
(* none of them.                                                           *)
(***************************************************************************)
Blanked(node) ==
    /\ "basicAuth" \in DOMAIN node.parameters
    /\ node.parameters.basicAuth = [user |-> "", password |-> ""]
    /\ node.parameters.basicAuth.password # wp_connection.app_password

C8_NoPasswordInExport ==
    (ui # NoUi /\ ~ui.include_credentials) =>
        /\ \A k \in 1..Len(exported_nodes) : Blanked(exported_nodes[k])
        /\ \A k \in 1..Len(written) :
                \A node \in NodesOf(written[k].content) : Blanked(node)

\* A finished run without credentials that wrote node files and a workflow.
C8_Witness ==
    /\ pc = "done"
    /\ ~ui.include_credentials
    /\ wp_connection.app_password = "s3cret"
    /\ \E k \in 1..Len(written) :
            IsWorkflow(written[k].content) /\ Len(written[k].content.nodes) >= 2
    /\ \E k \in 1..Len(written) : "parameters" \in DOMAIN written[k].content

(***************************************************************************)
(* C9.  With sample data requested and sample count k, no node of the      *)
(* export (post type, taxonomy or custom endpoint) holds more than k items *)
(* in its data field.                                                      *)
(***************************************************************************)
C9_SampleAtMostK ==
    (ui # NoUi /\ ui.include_sample_data) =>
        \A k \in 1..Len(exported_nodes) :
            "data" \in DOMAIN exported_nodes[k] =>
                Len(exported_nodes[k].data) <= ui.sample_data_limit

(***************************************************************************)
(* C10.  Every HTTP request the program issues carries a finite timeout,   *)
(* and so no request blocks the program for ever.                          *)
(***************************************************************************)
C10_FiniteTimeouts ==
    /\ \A k \in 1..Len(log) : log[k].timeout # NoTimeout
    /\ pc # "blocked"

(***************************************************************************)
(* C11: for one raw set of registered post types, the default selection    *)
(* offered for export holds none of wp_block, nav_menu_item and attachment *)
(* and holds post and page when the site has them, and the list returned   *)
(* by get_custom_post_types and offered as options holds all of them.      *)
(***************************************************************************)
Discovered == pc = "idle" /\ ui.export_type = "Post Types" /\ post_types # <<>>

C11_FilterPolicies ==
    Discovered =>
        /\ \A slug \in {wp_block, nav_menu_item, attachment} :
               slug \notin Range(ui.selected_post_types)
        /\ \A slug \in {post, page_type} :
               slug \in Range(site_types) => slug \in Range(ui.selected_post_types)
        /\ post_types = site_types

(***************************************************************************)
(* C12: the workflow written by a run holds every exported node, in order; *)
(* the node at index i (from 0) has the id node-(i+1) and the position     *)
(* (240 * (i mod 3), 240 * (i div 3)), so that indices 0..3 are at (0,0),  *)
(* (240,0), (480,0), (0,240); the exported nodes themselves keep their     *)
(* position (0,0) and have no id.                                          *)
(***************************************************************************)
FirstPositions == <<(<<0, 0>>), (<<240, 0>>), (<<480, 0>>), (<<0, 240>>)>>

Workflows == {k \in 1..Len(written) : IsWorkflow(written[k].content)}

C12_WorkflowGrid ==
    pc = "done" =>
        \A w \in Workflows :
            LET placed == written[w].content.nodes
            IN  /\ Len(placed) = Len(exported_nodes)
                /\ \A k \in 1..Len(placed) :
                    LET i == k - 1
                        node == exported_nodes[k]
                    IN  /\ placed[k].id = <<"node-", i + 1>>
                        /\ placed[k].position = <<240 * (i % 3), 240 * (i \div 3)>>
                        /\ k <= Len(FirstPositions) => placed[k].position = FirstPositions[k]
                        /\ DOMAIN placed[k] = DOMAIN node \cup {"id"}
                        /\ \A f \in DOMAIN node \ {"position"} : placed[k][f] = node[f]
                        /\ node.position = <<0, 0>>
                        /\ "id" \notin DOMAIN node

\* A run that wrote a workflow of four nodes: the second row of the grid is
\* in use.
C12_Witness ==
    /\ pc = "done"
    /\ \E w \in Workflows : Len(written[w].content.nodes) = 4

(***************************************************************************)
(* C13: sanitize_filename returns a string for every string, of the same   *)
(* length, in which every character that is not a letter, a digit, an      *)
(* underscore, a hyphen or a period is replaced by one underscore and      *)
(* every other character is kept in place; applied to its own result it    *)
(* returns that result.                                                    *)
(***************************************************************************)
KeptChars == Range(LowerCase) \cup Range(UpperCase) \cup Digits \cup {"_", "-", "."}

Sanitized(name, out) ==
    /\ DOMAIN out = 1..Len(name)
    /\ \A k \in 1..Len(name) :
        out[k] = IF name[k] \in KeptChars THEN name[k] ELSE "_"

C13_SanitizeIdempotent ==
    [][/\ pc' = "sanitized" => Sanitized(ui.workflow_name, result')
       /\ pc' = "resanitized" => result' = result]_vars

\* A name with a period that is kept and another character that is
\* replaced, sanitized twice.
C13_Witness ==
    /\ pc = "resanitized"
    /\ result # ui.workflow_name
    /\ \E k \in 1..Len(result) : result[k] = "." /\ ui.workflow_name[k] = "."
    /\ \E k \in 1..Len(result) : result[k] = "_" /\ ui.workflow_name[k] \in {" ", "/"}

(***************************************************************************)
(* C14: in a collector call the request issued after k answered page       *)
(* requests asks for page k + 1, the items accumulated so far are the      *)
(* pages 1..k of the collection in order, and the sequence returned is a   *)
(* prefix of the collection without duplicates.                            *)
(***************************************************************************)
AnsweredBefore(i) == Cardinality({j \in 1..(i - 1) : log[j].answer = "ok"})

RECURSIVE PagesUpTo(_)
PagesUpTo(k) ==
    IF k = 0 THEN <<>>
    ELSE PagesUpTo(k - 1) \o PageOf(Collection, k, per_page)

Accumulated == IF rest_base = posts_base THEN posts ELSE terms

C14_PagesInOrder ==
    /\ \A i \in 1..Len(log) : log[i].page = AnsweredBefore(i) + 1
    /\ Accumulated = PagesUpTo(AnsweredBefore(Len(log) + 1))
    /\ Returned => result = SubSeq(Items(Collection), 1, Len(result))

(***************************************************************************)
(* C15: fetch_all_posts behaves as one uniform bounded-retry loop: per     *)
(* page one attempt and up to 3 retries, and after whichever attempt is    *)
(* answered the end-of-collection and max-items checks.  For every pattern *)
(* of answers and failures both issue the same requests and return the     *)
(* same items.                                                             *)
(***************************************************************************)
\* The uniform loop run against the answers log[i..], with the items acc it
\* has so far and the failures in a row of the current request; its
\* requests are built as fetch_all_posts builds them.
RECURSIVE UniformLoop(_, _, _)
UniformLoop(i, acc, failures) ==
    IF i > Len(log)
    THEN [issued |-> i - 1, returned |-> FALSE, items |-> acc]
    ELSE IF log[i].answer = "ok"
    THEN LET data == PageOf(Collection, PostsParams(FirstPage).page, per_page)
             acc2 == acc \o data
         IN  IF ReachedEnd(data, acc2, arg_max_items)
             THEN [issued |-> i, returned |-> TRUE, items |-> Limit(acc2, arg_max_items)]
             ELSE UniformLoop(i + 1, acc2, 0)
    ELSE IF failures + 1 = 1 + 3
    THEN [issued |-> i, returned |-> TRUE, items |-> Limit(acc, arg_max_items)]
    ELSE UniformLoop(i + 1, acc, failures + 1)

C15_UniformRetryLoop ==
    rest_base = posts_base =>
        LET uniform == UniformLoop(1, <<>>, 0)
        IN  /\ uniform.issued = Len(log)
            /\ uniform.returned = (pc = "posts_returned")
            /\ pc = "posts_returned" => result = uniform.items

(***************************************************************************)
(* C16: every collector call returns because its attempts are bounded: no  *)
(* page is requested more than 4 times (1 attempt and 3 retries) by        *)
(* fetch_all_posts, nor more than once by fetch_taxonomy_terms.            *)
(***************************************************************************)
Attempts(p) == Cardinality({i \in 1..Len(log) : log[i].page = p})

RequestedPages == {log[i].page : i \in 1..Len(log)}

C16_BoundedAttempts ==
    \A p \in RequestedPages :
        /\ rest_base = posts_base => Attempts(p) <= 4
        /\ rest_base = categories_base => Attempts(p) <= 1

(***************************************************************************)
(* C17: over any sequence of Test Connection and Export clicks, an export  *)
(* runs only after some Test Connection succeeded; the connection stored,  *)
(* and the URL and credentials of every node the export builds and of the  *)
(* README, are those of the most recent test that succeeded; a Test        *)
(* Connection that fails, or one with an empty field, leaves the stored    *)
(* connection, post types and taxonomies as they were.                     *)
(***************************************************************************)
Exporting ==
    \/ pc \in {"widgets", "post_types", "posts_try", "posts_retry", "posts_returned",
               "taxonomies", "terms_try", "terms_returned", "custom", "workflow", "done"}
    \/ ui # NoUi
    \/ written # <<>>
    \/ exported_nodes # <<>>

IsPrefix(pre, str) == Len(pre) <= Len(str) /\ SubSeq(str, 1, Len(pre)) = pre

UsesLastTested(node) ==
    /\ IsPrefix(RStripSlash(last_tested.wp_url) \o ApiPath, node.parameters.url)
    /\ node.parameters.basicAuth =
            IF ui.include_credentials
            THEN [user |-> last_tested.username, password |-> last_tested.app_password]
            ELSE [user |-> "", password |-> ""]

SessionOfLastTest ==
    /\ (wp_connection = NoConnection) = (last_tested = NoForm)
    /\ wp_connection.url = last_tested.wp_url
    /\ wp_connection.username = last_tested.username
    /\ wp_connection.app_password = last_tested.app_password
    /\ Exporting =>
        /\ last_tested # NoForm
        /\ \A k \in 1..Len(exported_nodes) : UsesLastTested(exported_nodes[k])
        /\ \A k \in 1..Len(written) :
            /\ \A node \in NodesOf(written[k].content) : UsesLastTested(node)
            /\ "site" \in DOMAIN written[k].content =>
                    written[k].content.site = last_tested.wp_url

\* A Test Connection click with an empty field, or a test_connection that
\* failed: both end the handler at once.
TestRefused == (Resting \/ pc = "tc_test") /\ pc' = "idle"

C17_SessionLifecycle ==
    /\ []SessionOfLastTest
    /\ [][TestRefused => session' = session]_vars

\* A finished export that wrote nodes with the credentials of the connection
\* stored by the test of the user editor.
C17_Witness ==
    /\ pc = "done"
    /\ last_tested.username = "editor"
    /\ ui.include_credentials
    /\ \E k \in 1..Len(written) :
            /\ "parameters" \in DOMAIN written[k].content
            /\ written[k].content.parameters.basicAuth.user = "editor"

(***************************************************************************)
(* C18: within one export run no file path is written twice: the selected  *)
(* post types, the selected taxonomies, the custom endpoints and the       *)
(* workflow all get file names of their own, so nothing written earlier in *)
(* the run is overwritten.                                                 *)
(***************************************************************************)
C18_NoPathWrittenTwice ==
    \A j, k \in 1..Len(written) : j # k => written[j].path # written[k].path

====
